---- MODULE Spec2Model ----
(***************************************************************************)
(* StopFargateEcsServicesTrick (conserve / restore of Fargate ECS          *)
(* services and their Application Auto Scaling targets) as a state         *)
(* machine: the provider's configuration, the State that conserve          *)
(* returns, the Listr task nodes the trick adds, and the provider calls    *)
(* it issues.                                                              *)
(***************************************************************************)
EXTENDS Integers, Sequences, FiniteSets, TLC

\* Bounds of the model.
MaxDesired == 1
MaxCap == 1
MaxTargets == 2
MaxFailures == 1
MaxRestores == 2
MaxRegisterCalls == 2
MaxArgs == 2

\* _.chunk<string>(servicesArn, 10)
ChunkSize == 10

VARIABLES
    desiredCount,   \* provider: service -> desiredCount of the ECS service
    scalable,       \* provider: service -> its scalable targets (a list)
    stable,         \* provider: service -> servicesStable holds
    state,          \* the State conserve returned (EcsClusterState[])
    op,             \* "none" | "conserve" | "restore": the operation whose tasks run
    dryRuns,        \* the dryRun flag of every operation invoked so far, in order
    tags,           \* the tags the caller passed to conserve
    node,           \* service -> the task nodes added for it by the current operation
    calls,          \* every provider call issued so far
    failures,       \* the rejected provider calls: the index of the operation of each
    pre,            \* provider configuration when conserve was invoked
    snap,           \* provider configuration when the latest restore was invoked
    registry,       \* TrickRegistry.registry: the registered tricks, in order
    registered      \* the argument lists of the register calls made so far, in order

\* The state of the trick and of the provider.
trickVars == <<desiredCount, scalable, stable, state, op, dryRuns, tags, node,
               calls, failures, pre, snap>>

\* The state of the registry.
regVars == <<registry, registered>>

vars == <<desiredCount, scalable, stable, state, op, dryRuns, tags, node,
          calls, failures, pre, snap, registry, registered>>

----------------------------------------------------------------------------
\* The provider's resources.

\* An ARN is the sequence of its '/'-separated parts.
ClusterArn(c) == <<"arn:aws:ecs:cluster", c>>

ServiceArn(s) == <<"arn:aws:ecs:service", s.cluster, s.name>>

\* The clusters and Fargate services of the account, in the provider's order.
ProviderClusters == <<"c1", "c2">>

ProviderServices ==
    <<[cluster |-> "c1", name |-> "web"], [cluster |-> "c2", name |-> "web"]>>

Services == {ProviderServices[i] : i \in 1..Len(ProviderServices)}

\* Resource tags of a service, as Key/Value pairs.
ServiceTags(s) == IF s.cluster = "c1" THEN {<<"env", "dev">>} ELSE {}

TagChoices == {{}, {<<"env", "dev">>}}

MatchesTags(s, tg) == tg \subseteq ServiceTags(s)

\* The resource id under which Application Auto Scaling knows a service.
ProviderResourceId(s) == <<"service", s.cluster, s.name>>

Last(seq) == seq[Len(seq)]

\* getEcsServiceResourceId: `service/${clusterArn.split('/').pop()}/${serviceArn.split('/').pop()}`
GetEcsServiceResourceId(clusterArn, serviceArn) ==
    <<"service", Last(clusterArn), Last(serviceArn)>>

\* The service an updateService({cluster, service}) addresses.
ResolveService(clusterArn, serviceArn) ==
    {s \in Services : ClusterArn(s.cluster) = clusterArn /\ ServiceArn(s) = serviceArn}

\* The service a registerScalableTarget({ResourceId}) addresses.
ResolveResourceId(rid) == {s \in Services : ProviderResourceId(s) = rid}

\* Scalable targets of one resource: the i-th has dimension i, and min <= max.
TargetLists ==
    UNION {
        {t \in [1..n -> [dim : 1..n, min : 0..MaxCap, max : 0..MaxCap]] :
            \A i \in 1..n : t[i].dim = i /\ t[i].min <= t[i].max}
        : n \in 0..MaxTargets}

\* Number of scalable targets that the services of set ss hold in store sc.
RECURSIVE TotalTargets(_, _)
TotalTargets(sc, ss) ==
    IF ss = {} THEN 0
    ELSE LET s == CHOOSE s \in ss : TRUE
         IN  Len(sc[s]) + TotalTargets(sc, ss \ {s})

Config == [desired |-> desiredCount, scalable |-> scalable]

----------------------------------------------------------------------------
\* Provider calls, as logged.

Call(run, name, cluster, service, rid, dim, x, y) ==
    [run |-> run, name |-> name, cluster |-> cluster, service |-> service,
     rid |-> rid, dim |-> dim, x |-> x, y |-> y]

Mutating == {"updateService", "registerScalableTarget"}

Discovering ==
    {"listClusters", "listServices", "describeServices", "describeScalableTargets"}

\* Index of the operation running now: 0 is conserve, k is the k-th restore.
Run == Len(dryRuns) - 1

DryRun == dryRuns[Len(dryRuns)]

----------------------------------------------------------------------------
\* Discovery (conserve).

\* listClusters: (await ecsClient.listClusters({}).promise()).clusterArns || []
ListClusters == [i \in 1..Len(ProviderClusters) |-> ClusterArn(ProviderClusters[i])]

IsOfCluster(s, clusterArn) == ClusterArn(s.cluster) = clusterArn

\* listServices: the serviceArns of the cluster's FARGATE services
ListServices(clusterArn) ==
    LET of == SelectSeq(ProviderServices, LAMBDA s : IsOfCluster(s, clusterArn))
    IN  [i \in 1..Len(of) |-> ServiceArn(of[i])]

\* _.chunk(array, size)
RECURSIVE Chunk(_, _)
Chunk(seq, size) ==
    IF Len(seq) = 0 THEN <<>>
    ELSE IF Len(seq) <= size THEN <<seq>>
    ELSE <<SubSeq(seq, 1, size)>> \o Chunk(SubSeq(seq, size + 1, Len(seq)), size)

\* ecsClient.describeServices({services, cluster}): response.services holds the
\* services the provider could describe; the others are reported in
\* response.failures, which the caller does not read.
DescribeServices(clusterArn, arns, missing) ==
    LET found == SelectSeq(arns, LAMBDA a : ResolveService(clusterArn, a) # {}
                                            /\ a \notin missing)
    IN  [i \in 1..Len(found) |->
            LET s == CHOOSE s \in ResolveService(clusterArn, found[i]) : TRUE
            IN  [serviceArn |-> found[i], clusterArn |-> clusterArn,
                 desiredCount |-> desiredCount[s]]]

RECURSIVE DescribeChunks(_, _, _)
DescribeChunks(clusterArn, chunks, missing) ==
    IF Len(chunks) = 0 THEN <<>>
    ELSE DescribeServices(clusterArn, Head(chunks), missing)
            \o DescribeChunks(clusterArn, Tail(chunks), missing)

\* describeAllServices
DescribeAllServices(clusterArn, missing) ==
    DescribeChunks(clusterArn, Chunk(ListServices(clusterArn), ChunkSize), missing)

\* describeAllScalableTargets: the targets registered under the service's resource id
DescribeAllScalableTargets(service) ==
    LET rid == GetEcsServiceResourceId(service.clusterArn, service.serviceArn)
        hit == ResolveResourceId(rid)
    IN  IF hit = {} THEN <<>>
        ELSE LET t == scalable[CHOOSE s \in hit : TRUE]
             IN  [i \in 1..Len(t) |->
                    [ResourceId |-> rid, ScalableDimension |-> t[i].dim,
                     MinCapacity |-> t[i].min, MaxCapacity |-> t[i].max]]

\* getCurrentState, the EcsServiceState of one described service
ServiceState(service) ==
    LET sts == DescribeAllScalableTargets(service)
    IN  [arn |-> service.serviceArn,
         desired |-> service.desiredCount,
         scalableTargets |->
            [i \in 1..Len(sts) |->
                [namespace |-> "ecs", resourceId |-> sts[i].ResourceId,
                 scalableDimension |-> sts[i].ScalableDimension,
                 min |-> sts[i].MinCapacity, max |-> sts[i].MaxCapacity]]]

\* getCurrentState
GetCurrentState(clustersArn, missing) ==
    [c \in 1..Len(clustersArn) |->
        LET services == DescribeAllServices(clustersArn[c], missing)
        IN  [arn |-> clustersArn[c],
             services |-> [i \in 1..Len(services) |-> ServiceState(services[i])]]]

----------------------------------------------------------------------------
\* The State and the task nodes.

\* The (cluster arn, EcsServiceState) pairs of a State.
Entries(st) ==
    UNION {{<<st[c].arn, st[c].services[i]>> : i \in 1..Len(st[c].services)}
            : c \in 1..Len(st)}

\* The entries of a State that address service s.
EntriesOf(st, s) == {e \in Entries(st) : ResolveService(e[1], e[2].arn) = {s}}

InState(st, s) == EntriesOf(st, s) # {}

Captured(s) == (CHOOSE e \in EntriesOf(state, s) : TRUE)[2]

CapturedCluster(s) == (CHOOSE e \in EntriesOf(state, s) : TRUE)[1]

Terminal == {"completed", "failed", "skipped"}

NoNode == [desired |-> "none", scaling |-> "none", idx |-> 0,
           desiredMsg |-> "", scalingMsg |-> "",
           desiredReq |-> {}, scalingReq |-> {}]

\* subListr.add({title, task: () => new Listr([Desired count, Auto scaling])})
NewNode == [desired |-> "waiting", scaling |-> "waiting", idx |-> 0,
            desiredMsg |-> "", scalingMsg |-> "",
            desiredReq |-> {}, scalingReq |-> {}]

AllTerminal ==
    \A s \in Services :
        node[s].desired \in Terminal \cup {"none"}
        /\ node[s].scaling \in Terminal \cup {"none"}

----------------------------------------------------------------------------
\* The subtasks, up to their first await.

Outcome(status, msg, issued) == [status |-> status, msg |-> msg, calls |-> issued]

\* Mutant: `>= 0` for `> 0`, so a service already at zero is updated too.
ConserveServiceZeroToo(dry, clusterArn, ss) ==
    IF dry THEN Outcome("skipped", "Skipped due to dry-run", {})
    ELSE IF ss.desired >= 0
    THEN Outcome("pending", "Updating desired count to zero...",
                 {Call(Run, "updateService", clusterArn, ss.arn, <<>>, 0, 0, 0)})
    ELSE Outcome("skipped", "Skipped, desired count is already zero", {})

\* Mutant: under dry-run the subtask returns without task.skip, so its node
\* completes.
ConserveServiceDryRunCompletes(dry, clusterArn, ss) ==
    IF dry THEN Outcome("completed", "Skipped due to dry-run", {})
    ELSE IF ss.desired > 0
    THEN Outcome("pending", "Updating desired count to zero...",
                 {Call(Run, "updateService", clusterArn, ss.arn, <<>>, 0, 0, 0)})
    ELSE Outcome("skipped", "Skipped, desired count is already zero", {})

\* conserveService
ConserveService(dry, clusterArn, ss) ==
    IF dry THEN Outcome("skipped", "Skipped due to dry-run", {})
    ELSE IF ss.desired > 0
    THEN Outcome("pending", "Updating desired count to zero...",
                 {Call(Run, "updateService", clusterArn, ss.arn, <<>>, 0, 0, 0)})
    ELSE Outcome("skipped", "Skipped, desired count is already zero", {})

\* Mutant: MaxCapacity is left at the captured maximum.
ConserveRegisterCallKeepsMax(clusterArn, ss, i) ==
    Call(Run, "registerScalableTarget", <<>>, <<>>,
         GetEcsServiceResourceId(clusterArn, ss.arn),
         ss.scalableTargets[i].scalableDimension, 0, ss.scalableTargets[i].max)

\* Mutant: MaxCapacity is read from the service's desired count at the
\* provider at the time of the call, which the 'Desired count' subtask writes.
ConserveRegisterCallReadsDesired(clusterArn, ss, i) ==
    Call(Run, "registerScalableTarget", <<>>, <<>>,
         GetEcsServiceResourceId(clusterArn, ss.arn),
         ss.scalableTargets[i].scalableDimension, 0,
         desiredCount[CHOOSE s \in ResolveService(clusterArn, ss.arn) : TRUE])

\* Mutant: the loop goes through the scalable targets from the last to the first.
ConserveRegisterCallReversed(clusterArn, ss, i) ==
    Call(Run, "registerScalableTarget", <<>>, <<>>,
         GetEcsServiceResourceId(clusterArn, ss.arn),
         ss.scalableTargets[Len(ss.scalableTargets) - i + 1].scalableDimension, 0, 0)

\* conserveScalableTargets, the call of the loop's i-th round
ConserveRegisterCall(clusterArn, ss, i) ==
    Call(Run, "registerScalableTarget", <<>>, <<>>,
         GetEcsServiceResourceId(clusterArn, ss.arn),
         ss.scalableTargets[i].scalableDimension, 0, 0)

\* conserveScalableTargets
ConserveScalableTargets(dry, clusterArn, ss) ==
    IF Len(ss.scalableTargets) = 0
    THEN Outcome("skipped", "No scalable targets defined", {})
    ELSE IF dry THEN Outcome("skipped", "Skipped due to dry-run", {})
    ELSE Outcome("pending", "", {ConserveRegisterCall(clusterArn, ss, 1)})

\* Mutant: restore skips a service whose current desired count already equals
\* the captured one.
RestoreServiceSkipsWhenEqual(dry, clusterArn, ss) ==
    IF dry THEN Outcome("skipped", "Skipped due to dry-run", {})
    ELSE IF \A s \in ResolveService(clusterArn, ss.arn) : desiredCount[s] = ss.desired
    THEN Outcome("skipped", "Skipped, desired count is already restored", {})
    ELSE Outcome("pending", "Updating desired count...",
                 {Call(Run, "updateService", clusterArn, ss.arn, <<>>, 0,
                       ss.desired, 0)})

\* Mutant: the desired count sent is off by one.
RestoreServiceOffByOne(dry, clusterArn, ss) ==
    IF dry THEN Outcome("skipped", "Skipped due to dry-run", {})
    ELSE IF ss.desired > 0
    THEN Outcome("pending", "Updating desired count...",
                 {Call(Run, "updateService", clusterArn, ss.arn, <<>>, 0,
                       ss.desired + 1, 0)})
    ELSE Outcome("skipped", "Skipped, desired count was previously zero", {})

\* restoreService
RestoreService(dry, clusterArn, ss) ==
    IF dry THEN Outcome("skipped", "Skipped due to dry-run", {})
    ELSE IF ss.desired > 0
    THEN Outcome("pending", "Updating desired count...",
                 {Call(Run, "updateService", clusterArn, ss.arn, <<>>, 0,
                       ss.desired, 0)})
    ELSE Outcome("skipped", "Skipped, desired count was previously zero", {})

\* Mutant: MaxCapacity is given the captured minimum.
RestoreRegisterCallMinForMax(clusterArn, ss, i) ==
    Call(Run, "registerScalableTarget", <<>>, <<>>,
         GetEcsServiceResourceId(clusterArn, ss.arn),
         ss.scalableTargets[i].scalableDimension,
         ss.scalableTargets[i].min, ss.scalableTargets[i].min)

\* restoreScalableTargets, the call of the loop's i-th round
RestoreRegisterCall(clusterArn, ss, i) ==
    Call(Run, "registerScalableTarget", <<>>, <<>>,
         GetEcsServiceResourceId(clusterArn, ss.arn),
         ss.scalableTargets[i].scalableDimension,
         ss.scalableTargets[i].min, ss.scalableTargets[i].max)

\* Mutant: the dry-run test of the loop is missing.
RestoreScalableTargetsNoDryRun(dry, clusterArn, ss) ==
    IF Len(ss.scalableTargets) = 0
    THEN Outcome("skipped", "No scalable targets defined", {})
    ELSE Outcome("pending", "", {RestoreRegisterCall(clusterArn, ss, 1)})

\* restoreScalableTargets
RestoreScalableTargets(dry, clusterArn, ss) ==
    IF Len(ss.scalableTargets) = 0
    THEN Outcome("skipped", "No scalable targets defined", {})
    ELSE IF dry THEN Outcome("skipped", "Skipped due to dry-run", {})
    ELSE Outcome("pending", "", {RestoreRegisterCall(clusterArn, ss, 1)})

----------------------------------------------------------------------------
\* The provider's mutations.

\* ecs.updateService({cluster, service, desiredCount})
ApplyUpdateService(req) ==
    LET hit == ResolveService(req.cluster, req.service)
    IN  /\ desiredCount' =
            [t \in Services |-> IF t \in hit THEN req.x ELSE desiredCount[t]]
        \* a changed desired count starts a deployment: the service is not
        \* stable until its running count has followed
        /\ stable' =
            [t \in Services |->
                IF t \in hit /\ desiredCount[t] # req.x THEN FALSE ELSE stable[t]]

\* applicationAutoScaling.registerScalableTarget: creates or updates the target
\* of that resource id and dimension
Register(targets, dim, min, max) ==
    IF \E i \in 1..Len(targets) : targets[i].dim = dim
    THEN [i \in 1..Len(targets) |->
            IF targets[i].dim = dim
            THEN [dim |-> dim, min |-> min, max |-> max] ELSE targets[i]]
    ELSE Append(targets, [dim |-> dim, min |-> min, max |-> max])

ApplyRegisterScalableTarget(req) ==
    LET hit == ResolveResourceId(req.rid)
    IN  scalable' =
            [t \in Services |->
                IF t \in hit THEN Register(scalable[t], req.dim, req.x, req.y)
                ELSE scalable[t]]

----------------------------------------------------------------------------
\* Listr.

\* Mutant: the option is left at Listr's default.
ExitOnErrorDefault == TRUE

\* new Listr([...], { exitOnError: false, concurrent: true })
ExitOnError == FALSE

\* With exitOnError, the first failed subtask rejects the list's run and the
\* command ends; without it a failure is only reported on its node.
Aborted ==
    ExitOnError /\ \E s \in Services : "failed" \in {node[s].desired, node[s].scaling}

----------------------------------------------------------------------------
\* Actions.

Init ==
    /\ desiredCount \in [Services -> 0..MaxDesired]
    /\ scalable \in [Services -> TargetLists]
    /\ TotalTargets(scalable, Services) <= MaxTargets
    /\ stable = [s \in Services |-> TRUE]
    /\ state = <<>>
    /\ op = "none"
    /\ dryRuns = <<>>
    /\ tags = {}
    /\ node = [s \in Services |-> NoNode]
    /\ calls = {}
    /\ failures = <<>>
    /\ pre = Config
    /\ snap = Config
    /\ registry = <<>>
    /\ registered = <<>>

\* The enumerate and describe calls of conserve (listClusters, getCurrentState).
DiscoveryCalls(st) ==
    LET clustersArn == ListClusters
    IN  {Call(0, "listClusters", <<>>, <<>>, <<>>, 0, 0, 0)}
        \cup {Call(0, "listServices", clustersArn[c], <<>>, <<>>, 0, 0, 0) :
                c \in 1..Len(clustersArn)}
        \cup UNION {
                {Call(0, "describeServices", clustersArn[c], <<>>, <<>>, 0, k, 0) :
                    k \in 1..Len(Chunk(ListServices(clustersArn[c]), ChunkSize))}
                : c \in 1..Len(clustersArn)}
        \cup {Call(0, "describeScalableTargets", <<>>, <<>>,
                    GetEcsServiceResourceId(e[1], e[2].arn), 0, 0, 0) :
                e \in Entries(st)}

\* Mutant: under dry-run the State records the planned values (desired count 0,
\* min = max = 0) instead of the values read.
ConserveRecordsPlanOnDryRun(dry, tg, missing) ==
    /\ op = "none"
    /\ LET clustersArn == ListClusters
           currentState == GetCurrentState(clustersArn, missing)
           planned == [c \in 1..Len(currentState) |->
                        [arn |-> currentState[c].arn,
                         services |->
                            [i \in 1..Len(currentState[c].services) |->
                                [arn |-> currentState[c].services[i].arn,
                                 desired |-> 0,
                                 scalableTargets |->
                                    [k \in 1..Len(currentState[c].services[i].scalableTargets) |->
                                        [currentState[c].services[i].scalableTargets[k]
                                            EXCEPT !.min = 0, !.max = 0]]]]]]
       IN  /\ state' = IF dry THEN planned ELSE currentState
           /\ node' = [s \in Services |->
                        IF InState(currentState, s) THEN NewNode ELSE NoNode]
           /\ calls' = calls \cup DiscoveryCalls(currentState)
    /\ op' = "conserve"
    /\ dryRuns' = <<dry>>
    /\ tags' = tg
    /\ pre' = Config
    /\ UNCHANGED <<desiredCount, scalable, stable, failures, snap>>
    /\ UNCHANGED regVars

\* conserve(subListr, dryRun): discovery, one task node per captured service,
\* and the State returned. The tags of the interface are not a parameter of
\* this implementation.
Conserve(dry, tg, missing) ==
    /\ op = "none"
    /\ LET clustersArn == ListClusters
           currentState == GetCurrentState(clustersArn, missing)
       IN  /\ state' = currentState
           /\ node' = [s \in Services |->
                        IF InState(currentState, s) THEN NewNode ELSE NoNode]
           /\ calls' = calls \cup DiscoveryCalls(currentState)
    /\ op' = "conserve"
    /\ dryRuns' = <<dry>>
    /\ tags' = tg
    /\ pre' = Config
    /\ UNCHANGED <<desiredCount, scalable, stable, failures, snap>>
    /\ UNCHANGED regVars

\* What can make discovery throw: a rejected enumerate/describe call, or a
\* described service without serviceArn, desiredCount or clusterArn.
Faults ==
    {"listClusters", "listServices", "describeServices", "serviceArn",
     "desiredCount", "clusterArn", "describeScalableTargets"}

\* How far discovery has come when a call of this name is issued.
StageOfCall(name) ==
    CASE name = "listClusters" -> 1
      [] name = "listServices" -> 2
      [] name = "describeServices" -> 3
      [] name = "describeScalableTargets" -> 4

\* How far discovery has come when the fault shows: the checks of serviceArn,
\* desiredCount and clusterArn come before describeScalableTargets is called.
StageOfFault(fault) ==
    IF fault \in {"serviceArn", "desiredCount", "clusterArn"} THEN 3
    ELSE StageOfCall(fault)

\* The enumerate and describe calls issued when discovery throws.
FaultCalls(fault) ==
    {c \in DiscoveryCalls(GetCurrentState(ListClusters, {})) :
        StageOfCall(c.name) <= StageOfFault(fault)}

\* Mutant: the clusters described so far are returned as the State and their
\* services get task nodes.
ConserveFailsKeepsPartial(dry, tg, fault) ==
    /\ op = "none"
    /\ LET partial == IF StageOfFault(fault) >= 3
                      THEN SubSeq(GetCurrentState(ListClusters, {}), 1, 1)
                      ELSE <<>>
       IN  /\ state' = partial
           /\ node' = [s \in Services |->
                        IF InState(partial, s) THEN NewNode ELSE NoNode]
    /\ calls' = calls \cup FaultCalls(fault)
    /\ op' = "failed"
    /\ dryRuns' = <<dry>>
    /\ tags' = tg
    /\ pre' = Config
    /\ UNCHANGED <<desiredCount, scalable, stable, failures, snap>>
    /\ UNCHANGED regVars

\* conserve(subListr, dryRun) when listClusters or getCurrentState throws: the
\* awaits of lines 41-42 reject, so conserve rejects before the loop that adds
\* the task nodes and before `return currentState`.
ConserveFails(dry, tg, fault) ==
    /\ op = "none"
    /\ calls' = calls \cup FaultCalls(fault)
    /\ op' = "failed"
    /\ dryRuns' = <<dry>>
    /\ tags' = tg
    /\ pre' = Config
    /\ UNCHANGED <<desiredCount, scalable, stable, state, node, failures, snap>>
    /\ UNCHANGED regVars

\* restore(subListr, dryRun, originalState): one task node per service of the State.
Restore(dry) ==
    /\ op \in {"conserve", "restore"}
    /\ AllTerminal
    /\ ~Aborted
    /\ Run < MaxRestores
    /\ node' = [s \in Services |-> IF InState(state, s) THEN NewNode ELSE NoNode]
    /\ op' = "restore"
    /\ dryRuns' = Append(dryRuns, dry)
    /\ snap' = Config
    /\ UNCHANGED <<desiredCount, scalable, stable, state, tags, calls, failures, pre>>
    /\ UNCHANGED regVars

\* The list runs the node of service s: both subtasks start (concurrent: true)
\* and run up to their first await.
StartService(s) ==
    /\ node[s].desired = "waiting"
    /\ ~Aborted
    /\ LET ss == Captured(s)
           cl == CapturedCluster(s)
           d == IF op = "conserve" THEN ConserveService(DryRun, cl, ss)
                ELSE RestoreService(DryRun, cl, ss)
           a == IF op = "conserve" THEN ConserveScalableTargets(DryRun, cl, ss)
                ELSE RestoreScalableTargets(DryRun, cl, ss)
       IN  /\ node' = [node EXCEPT ![s] =
                    [desired |-> d.status, desiredMsg |-> d.msg, desiredReq |-> d.calls,
                     scaling |-> a.status, scalingMsg |-> a.msg, scalingReq |-> a.calls,
                     idx |-> IF a.status = "pending" THEN 1 ELSE 0]]
           /\ calls' = calls \cup d.calls \cup a.calls
    /\ UNCHANGED <<desiredCount, scalable, stable, state, op, dryRuns, tags,
                   failures, pre, snap>>
    /\ UNCHANGED regVars

\* Mutant: the subtask writes the desired count it has set into the State entry.
UpdateServiceDoneWritesState(s) ==
    /\ node[s].desired = "pending"
    /\ ~Aborted
    /\ \E req \in node[s].desiredReq : ApplyUpdateService(req)
    /\ node' = [node EXCEPT ![s].desired = "completed",
                            ![s].desiredReq = {},
                            ![s].desiredMsg =
                                IF op = "conserve" THEN "Set desired count to zero"
                                ELSE "Restored desired count"]
    /\ state' = [c \in 1..Len(state) |->
                    [state[c] EXCEPT !.services =
                        [i \in 1..Len(state[c].services) |->
                            IF ResolveService(state[c].arn, state[c].services[i].arn) = {s}
                            THEN [state[c].services[i] EXCEPT !.desired = desiredCount'[s]]
                            ELSE state[c].services[i]]]]
    /\ UNCHANGED <<scalable, op, dryRuns, tags, calls, failures, pre, snap>>
    /\ UNCHANGED regVars

\* conserveService / restoreService after `await updateService(...).promise()`:
\* ecsClient.waitFor('servicesStable', ...) is called with no callback and
\* without .promise(), so it returns the request unsent; awaiting that value
\* resumes at once, and the subtask completes with its final output.
UpdateServiceDone(s) ==
    /\ node[s].desired = "pending"
    /\ ~Aborted
    /\ \E req \in node[s].desiredReq : ApplyUpdateService(req)
    /\ node' = [node EXCEPT ![s].desired = "completed",
                            ![s].desiredReq = {},
                            ![s].desiredMsg =
                                IF op = "conserve" THEN "Set desired count to zero"
                                ELSE "Restored desired count"]
    /\ UNCHANGED <<scalable, state, op, dryRuns, tags, calls, failures, pre, snap>>
    /\ UNCHANGED regVars

\* updateService rejects: the subtask throws and its node fails.
UpdateServiceFails(s) ==
    /\ node[s].desired = "pending"
    /\ ~Aborted
    /\ Len(failures) < MaxFailures
    /\ failures' = Append(failures, Run)
    /\ node' = [node EXCEPT ![s].desired = "failed", ![s].desiredReq = {},
                            ![s].desiredMsg = "updateService rejected"]
    /\ UNCHANGED <<desiredCount, scalable, stable, state, op, dryRuns, tags,
                   calls, pre, snap>>
    /\ UNCHANGED regVars

\* conserveScalableTargets / restoreScalableTargets: registerScalableTarget of
\* round idx resolves, and the loop issues the next round's call or ends.
RegisterDone(s) ==
    /\ node[s].scaling = "pending"
    /\ ~Aborted
    /\ \E req \in node[s].scalingReq : ApplyRegisterScalableTarget(req)
    /\ LET ss == Captured(s)
           cl == CapturedCluster(s)
           i == node[s].idx + 1
           next == IF op = "conserve" THEN ConserveRegisterCall(cl, ss, i)
                   ELSE RestoreRegisterCall(cl, ss, i)
       IN  IF i <= Len(ss.scalableTargets)
           THEN /\ node' = [node EXCEPT ![s].idx = i, ![s].scalingReq = {next}]
                /\ calls' = calls \cup {next}
           ELSE /\ node' = [node EXCEPT ![s].scaling = "completed",
                                        ![s].scalingReq = {}]
                /\ calls' = calls
    /\ UNCHANGED <<desiredCount, stable, state, op, dryRuns, tags, failures, pre, snap>>
    /\ UNCHANGED regVars

\* registerScalableTarget rejects: the loop is left and the node fails.
RegisterFails(s) ==
    /\ node[s].scaling = "pending"
    /\ ~Aborted
    /\ Len(failures) < MaxFailures
    /\ failures' = Append(failures, Run)
    /\ node' = [node EXCEPT ![s].scaling = "failed", ![s].scalingReq = {},
                            ![s].scalingMsg = "registerScalableTarget rejected"]
    /\ UNCHANGED <<desiredCount, scalable, stable, state, op, dryRuns, tags,
                   calls, pre, snap>>
    /\ UNCHANGED regVars

\* The provider: the running count of s has followed its desired count.
ProviderStabilise(s) ==
    /\ ~stable[s]
    /\ stable' = [stable EXCEPT ![s] = TRUE]
    /\ UNCHANGED <<desiredCount, scalable, state, op, dryRuns, tags, node, calls,
                   failures, pre, snap>>
    /\ UNCHANGED regVars

Next ==
    \/ \E dry \in BOOLEAN, tg \in TagChoices,
          missing \in SUBSET {ServiceArn(s) : s \in Services} :
            Conserve(dry, tg, missing)
    \/ \E dry \in BOOLEAN, tg \in TagChoices, fault \in Faults :
            ConserveFails(dry, tg, fault)
    \/ \E dry \in BOOLEAN : Restore(dry)
    \/ \E s \in Services :
            \/ StartService(s)
            \/ UpdateServiceDone(s)
            \/ UpdateServiceFails(s)
            \/ RegisterDone(s)
            \/ RegisterFails(s)
            \/ ProviderStabilise(s)

Spec == Init /\ [][Next]_vars

----------------------------------------------------------------------------
\* The registry of tricks.

\* Mutant: one trick is constructed twice and another left out.
InitialTricksDuplicated ==
    <<"StopFargateEcsServicesTrick", "StopFargateEcsServicesTrick",
      "ShutdownEC2InstancesTrick", "DecreaseDynamoDBProvisionedRcuWcuTrick",
      "RemoveNatGatewaysTrick", "SnapshotRemoveElasticacheRedisTrick",
      "DecreaseKinesisStreamsShardsTrick">>

\* The tricks that initialize() registers, each named by its class, in the
\* order of the call.
InitialTricks ==
    <<"StopFargateEcsServicesTrick", "StopRdsDatabaseInstancesTrick",
      "ShutdownEC2InstancesTrick", "DecreaseDynamoDBProvisionedRcuWcuTrick",
      "RemoveNatGatewaysTrick", "SnapshotRemoveElasticacheRedisTrick",
      "DecreaseKinesisStreamsShardsTrick">>

\* getMachineName(): the stable key of a trick, one per class.
MachineName(trick) ==
    CASE trick = "StopFargateEcsServicesTrick" -> "stop-fargate-ecs-services"
      [] trick = "StopRdsDatabaseInstancesTrick" -> "stop-rds-database-instances"
      [] trick = "ShutdownEC2InstancesTrick" -> "shutdown-ec2-instances"
      [] trick = "DecreaseDynamoDBProvisionedRcuWcuTrick"
            -> "decrease-dynamodb-provisioned-rcu-wcu"
      [] trick = "RemoveNatGatewaysTrick" -> "remove-nat-gateways"
      [] trick = "SnapshotRemoveElasticacheRedisTrick"
            -> "snapshot-remove-elasticache-redis"
      [] trick = "DecreaseKinesisStreamsShardsTrick"
            -> "decrease-kinesis-streams-shards"

\* The tricks a caller passes to register besides those of initialize().
TrickPool == SubSeq(InitialTricks, 1, 3)

\* The argument lists of one register(...trick) call.
ArgLists ==
    UNION {[1..n -> {TrickPool[i] : i \in 1..Len(TrickPool)}] : n \in 1..MaxArgs}

\* Mutant: unshift for push.
Unshift(array, items) == items \o array

\* Array.prototype.push(...items)
Push(array, items) == array \o items

\* all(): return this.registry
all == registry

\* register(...trick): this.registry.push(...trick)
register(trick) ==
    /\ Len(registered) < MaxRegisterCalls
    /\ registry' = Push(registry, trick)
    /\ registered' = Append(registered, trick)
    /\ UNCHANGED trickVars

\* initialize(): a new registry, and the seven tricks registered in one call
initialize ==
    /\ registered = <<>>
    /\ registry' = Push(<<>>, InitialTricks)
    /\ registered' = <<InitialTricks>>
    /\ UNCHANGED trickVars

RegInit ==
    /\ registry = <<>>
    /\ registered = <<>>
    /\ desiredCount = [s \in Services |-> 0]
    /\ scalable = [s \in Services |-> <<>>]
    /\ stable = [s \in Services |-> TRUE]
    /\ state = <<>>
    /\ op = "none"
    /\ dryRuns = <<>>
    /\ tags = {}
    /\ node = [s \in Services |-> NoNode]
    /\ calls = {}
    /\ failures = <<>>
    /\ pre = Config
    /\ snap = Config

RegNext ==
    \/ initialize
    \/ \E trick \in ArgLists : register(trick)

RegSpec == RegInit /\ [][RegNext]_vars

----------------------------------------------------------------------------
\* Vocabulary of the properties.

CallsOf(k) == {c \in calls : c.run = k}

MutatingCallsOf(k) == {c \in CallsOf(k) : c.name \in Mutating}

\* The services a mutating call addresses at the provider.
CallTargets(c) ==
    IF c.name = "updateService" THEN ResolveService(c.cluster, c.service)
    ELSE IF c.name = "registerScalableTarget" THEN ResolveResourceId(c.rid)
    ELSE {}

\* Some provider call of operation k was rejected.
FailedIn(k) == \E i \in 1..Len(failures) : failures[i] = k

\* Operation k is the latest one and all its task nodes have ended.
Finished(k) == Run = k /\ AllTerminal

\* Service s went through the whole of the current operation without dry-run:
\* both its subtasks completed.
Applied(s) == node[s].desired = "completed" /\ node[s].scaling = "completed"

\* The captured scalable targets of s are those of store sc, value for value.
SameTargets(captured, sc) ==
    /\ Len(captured) = Len(sc)
    /\ \A i \in 1..Len(sc) :
            /\ captured[i].scalableDimension = sc[i].dim
            /\ captured[i].min = sc[i].min
            /\ captured[i].max = sc[i].max

----------------------------------------------------------------------------
\* C1. Round trip: once conserve (dryRun = false) and then restore (dryRun =
\* false) with the State conserve returned have both finished with no provider
\* call rejected, every service of the State has the desired count and the
\* scalable targets (min, max) it had when conserve was invoked.
C1_RoundTrip ==
    (Finished(1) /\ ~dryRuns[1] /\ ~dryRuns[2] /\ failures = <<>>)
        => \A s \in Services :
                InState(state, s)
                    => /\ desiredCount[s] = pre.desired[s]
                       /\ scalable[s] = pre.scalable[s]

\* A finished round trip of a service that ran with a desired count above zero
\* and a scalable target whose min and max differ.
C1_Witness ==
    /\ Finished(1) /\ ~dryRuns[1] /\ ~dryRuns[2] /\ failures = <<>>
    /\ \E s \in Services :
            /\ InState(state, s) /\ Applied(s)
            /\ pre.desired[s] > 0
            /\ \E i \in 1..Len(pre.scalable[s]) :
                    pre.scalable[s][i].min < pre.scalable[s][i].max

Anonymous(c) == [c EXCEPT !.run = 0]

C3_DryRunPurity ==
    /\ \A c \in calls : dryRuns[c.run + 1] => c.name \notin Mutating
    /\ (op = "conserve" /\ DryRun) => Config = pre
    /\ (op = "restore" /\ DryRun) => Config = snap

\* A dry-run conserve and a dry-run restore, both finished, over a service
\* with a desired count above zero and a scalable target.
C3_Witness ==
    /\ Finished(1) /\ dryRuns[1] /\ dryRuns[2]
    /\ \E s \in Services :
            /\ InState(state, s)
            /\ Captured(s).desired > 0
            /\ Len(Captured(s).scalableTargets) > 0
            /\ node[s].desired = "skipped" /\ node[s].scaling = "skipped"

\* C4, as claimed. Tag scoping: a service that does not match the tags passed
\* to conserve is not recorded in the returned State and is the target of no
\* mutating call of conserve.
C4_TagScoping ==
    \A s \in Services :
        (op # "none" /\ ~MatchesTags(s, tags))
            => /\ ~InState(state, s)
               /\ \A c \in MutatingCallsOf(0) : s \notin CallTargets(c)

\* C5, as claimed. Whenever a 'Desired count' node completes (its update
\* applied), the wait for servicesStable of its service has completed: the
\* service is stable at that moment.
C5_AppliedOnlyWhenStable ==
    [][\A s \in Services :
        (node[s].desired = "pending" /\ node'[s].desired = "completed")
            => stable'[s]]_vars

\* C6, as claimed. No discovered service is dropped: every service that
\* listServices returned to conserve is an entry of the returned State or has
\* a node with a skip annotation in the task tree.
C6_NoSilentDrop ==
    op # "none"
        => \A i \in 1..Len(ListClusters) :
            \A j \in 1..Len(ListServices(ListClusters[i])) :
                \E s \in ResolveService(ListClusters[i],
                                        ListServices(ListClusters[i])[j]) :
                    \/ InState(state, s)
                    \/ "skipped" \in {node[s].desired, node[s].scaling}

\* Some subtask has failed.
SomeFailed ==
    \E s \in Services : "failed" \in {node[s].desired, node[s].scaling}

\* C7. Failure isolation: after a subtask has failed, every node that has not
\* ended can still take its next step: a waiting service node can start, a
\* pending 'Desired count' or 'Auto scaling' subtask can receive the answer
\* to its call. No failure cancels a sibling subtask or another service.
C7_FailureIsolation ==
    SomeFailed
        => \A s \in Services :
            /\ node[s].desired = "waiting" => ENABLED StartService(s)
            /\ node[s].desired = "pending" => ENABLED UpdateServiceDone(s)
            /\ node[s].scaling = "pending" => ENABLED RegisterDone(s)

\* The 'Desired count' subtask of one service failed; its 'Auto scaling'
\* sibling and both subtasks of the other service completed all the same.
C7_Witness ==
    \E s \in Services, t \in Services :
        /\ s # t
        /\ node[s].desired = "failed" /\ node[s].scaling = "completed"
        /\ Applied(t)

\* C8, as claimed. A service captured with desired count 0 by a conserve with
\* dryRun = false is recorded with desired 0 and is the target of no mutating
\* call, neither of conserve nor of a later restore.
C8_AlreadyZeroNoMutation ==
    \A s \in Services :
        (op # "none" /\ ~dryRuns[1] /\ InState(state, s) /\ pre.desired[s] = 0)
            => /\ Captured(s).desired = 0
               /\ \A c \in calls : c.name \in Mutating => s \notin CallTargets(c)

\* C8, amended. A service captured with desired count 0 by a conserve with
\* dryRun = false is recorded with desired 0; neither conserve nor a later
\* restore issues an updateService for it, and its 'Desired count' node never
\* does anything but skip; both still register each of its captured scalable
\* targets, so it is the target of no mutating call at all only if it has no
\* scalable target.
C8_AlreadyZeroNoUpdate ==
    \A s \in Services :
        (op # "none" /\ ~dryRuns[1] /\ InState(state, s) /\ pre.desired[s] = 0)
            => /\ Captured(s).desired = 0
               /\ \A c \in calls : c.name = "updateService" => s \notin CallTargets(c)
               /\ node[s].desired \in {"waiting", "skipped"}
               /\ desiredCount[s] = 0
               /\ Len(Captured(s).scalableTargets) = 0
                    => \A c \in calls : c.name \in Mutating => s \notin CallTargets(c)
               /\ (Finished(0) /\ ~FailedIn(0))
                    => \A i \in 1..Len(Captured(s).scalableTargets) :
                        \E c \in MutatingCallsOf(0) :
                            /\ s \in CallTargets(c)
                            /\ c.dim = Captured(s).scalableTargets[i].scalableDimension

\* Conserve and restore have both finished without dry-run for a service that
\* was at desired count 0 and has a scalable target.
C8_Witness ==
    /\ Finished(1) /\ ~dryRuns[1] /\ ~dryRuns[2]
    /\ \E s \in Services :
            /\ InState(state, s) /\ pre.desired[s] = 0
            /\ Len(Captured(s).scalableTargets) > 0
            /\ node[s].desired = "skipped" /\ node[s].scaling = "completed"

\* C9. Conserve result: once a conserve with dryRun = false has finished with
\* no call rejected, every entry of the returned State holds the desired count
\* and the min/max of each scalable target that its service had before, the
\* service's desired count at the provider is 0, and every captured scalable
\* target has min = 0 and max = 0 at the provider.
C9_ConserveResult ==
    (Finished(0) /\ op = "conserve" /\ ~dryRuns[1] /\ failures = <<>>)
        => \A s \in Services :
            InState(state, s)
                => /\ Captured(s).desired = pre.desired[s]
                   /\ SameTargets(Captured(s).scalableTargets, pre.scalable[s])
                   /\ desiredCount[s] = 0
                   /\ Len(scalable[s]) = Len(pre.scalable[s])
                   /\ \A i \in 1..Len(scalable[s]) :
                        /\ scalable[s][i].dim = pre.scalable[s][i].dim
                        /\ scalable[s][i].min = 0
                        /\ scalable[s][i].max = 0

\* A finished conserve that scaled a running service with a scalable target of
\* maximum above zero down to zero.
C9_Witness ==
    /\ Finished(0) /\ op = "conserve" /\ ~dryRuns[1] /\ failures = <<>>
    /\ \E s \in Services :
            /\ InState(state, s) /\ Applied(s)
            /\ pre.desired[s] > 0
            /\ \E i \in 1..Len(pre.scalable[s]) : pre.scalable[s][i].max > 0

\* C10. Restore is self-contained: no call of a restore is an enumerate or a
\* describe call; every updateService of a restore addresses a cluster and
\* service of the State with that entry's desired count, every
\* registerScalableTarget of a restore addresses a scalable target of the
\* State (resource id and dimension) with that target's min and max; and a
\* service that is not in the State keeps its configuration.
C10_RestoreSelfContained ==
    /\ \A c \in calls :
            c.run >= 1
                => /\ c.name \in Mutating
                   /\ c.name = "updateService"
                        => \E e \in Entries(state) :
                            /\ c.cluster = e[1] /\ c.service = e[2].arn
                            /\ c.x = e[2].desired
                   /\ c.name = "registerScalableTarget"
                        => \E e \in Entries(state) :
                            \E i \in 1..Len(e[2].scalableTargets) :
                                LET st == e[2].scalableTargets[i]
                                IN  /\ c.rid = st.resourceId
                                    /\ c.dim = st.scalableDimension
                                    /\ c.x = st.min /\ c.y = st.max
    /\ \A s \in Services :
            (op # "none" /\ ~InState(state, s))
                => desiredCount[s] = pre.desired[s] /\ scalable[s] = pre.scalable[s]

\* A restore without dry-run has issued an updateService and a
\* registerScalableTarget, while some service is not in the State.
C10_Witness ==
    /\ op = "restore" /\ ~DryRun
    /\ \E c \in calls : c.run >= 1 /\ c.name = "updateService"
    /\ \E c \in calls : c.run >= 1 /\ c.name = "registerScalableTarget"
    /\ \E s \in Services : ~InState(state, s)

----------------------------------------------------------------------------
\* The registry.

RECURSIVE Flatten(_)
Flatten(seqs) == IF Len(seqs) = 0 THEN <<>> ELSE Head(seqs) \o Flatten(Tail(seqs))

RECURSIVE TotalLen(_)
TotalLen(seqs) == IF Len(seqs) = 0 THEN 0 ELSE Len(Head(seqs)) + TotalLen(Tail(seqs))

IsPrefix(a, b) == Len(a) <= Len(b) /\ SubSeq(b, 1, Len(a)) = a

\* C11. Registry order and length: after every register call (and after
\* initialize), all() is the concatenation, in call order, of the argument
\* lists registered so far, its length is the number of tricks registered, and
\* what all() returned before the call is a prefix of what it returns after:
\* no earlier entry is removed or moved.
C11_RegistryOrder ==
    [][/\ IsPrefix(all, all')
       /\ all' = Flatten(registered')
       /\ Len(all') = TotalLen(registered')]_vars

\* initialize() and then a register call with two tricks: nine entries.
C11_Witness ==
    /\ Len(registered) = 2
    /\ registered[1] = InitialTricks
    /\ Len(registered[2]) = 2
    /\ Len(all) = 9

\* C12, as claimed. Registry uniqueness: no two entries of the registry have
\* the same machine name, in every state of the registry.
C12_UniqueMachineNames ==
    \A i \in 1..Len(all), j \in 1..Len(all) :
        i # j => MachineName(all[i]) # MachineName(all[j])

\* Number of occurrences of x in a sequence.
RECURSIVE Count(_, _)
Count(x, seq) ==
    IF Len(seq) = 0 THEN 0
    ELSE (IF Head(seq) = x THEN 1 ELSE 0) + Count(x, Tail(seq))

\* C12, amended. The registry that initialize() builds holds no two tricks
\* with the same machine name; register itself rejects nothing, and two
\* entries of the registry have the same machine name exactly when a trick of
\* that name was passed to register more than once.
C12_UniqueUnlessRegisteredTwice ==
    /\ registered = <<InitialTricks>> => C12_UniqueMachineNames
    /\ \A i \in 1..Len(all) :
            (\E j \in 1..Len(all) : i # j /\ MachineName(all[i]) = MachineName(all[j]))
                <=> Count(all[i], Flatten(registered)) > 1

\* The registry as initialize() built it, with nothing registered since.
C12_Witness ==
    /\ registered = <<InitialTricks>>
    /\ Len(all) = 7
    /\ \E i \in 1..Len(all) : MachineName(all[i]) = "stop-fargate-ecs-services"

----------------------------------------------------------------------------
\* The State that conserve returns.

\* The State written out from a provider configuration: every cluster in
\* enumeration order, with the services of set described in listing order,
\* each with the desired count and the scalable targets of the configuration.
ExpectedState(cfg, described) ==
    [c \in 1..Len(ProviderClusters) |->
        LET of == SelectSeq(ProviderServices,
                            LAMBDA s : s.cluster = ProviderClusters[c]
                                       /\ s \in described)
        IN  [arn |-> ClusterArn(ProviderClusters[c]),
             services |->
                [i \in 1..Len(of) |->
                    [arn |-> ServiceArn(of[i]),
                     desired |-> cfg.desired[of[i]],
                     scalableTargets |->
                        [k \in 1..Len(cfg.scalable[of[i]]) |->
                            [namespace |-> "ecs",
                             resourceId |-> ProviderResourceId(of[i]),
                             scalableDimension |-> cfg.scalable[of[i]][k].dim,
                             min |-> cfg.scalable[of[i]][k].min,
                             max |-> cfg.scalable[of[i]][k].max]]]]]]

\* C13. State capture under dry-run: the State that conserve returns is the
\* configuration the provider had when conserve was called, written out for
\* the services it described, whether dryRun was true or false: it is a
\* function of the provider configuration alone and the dryRun flag has no
\* part in it.
C13_StateIndependentOfDryRun ==
    op \in {"conserve", "restore"} =>
        \A dry \in BOOLEAN :
            dryRuns[1] = dry =>
                state = ExpectedState(pre, {s \in Services : InState(state, s)})

\* A dry-run conserve has returned the State of a service that runs and has a
\* scalable target with capacity.
C13_Witness ==
    /\ op = "conserve"
    /\ dryRuns = <<TRUE>>
    /\ \E s \in Services :
            /\ InState(state, s)
            /\ Captured(s).desired > 0
            /\ Len(Captured(s).scalableTargets) > 0
            /\ Captured(s).scalableTargets[1].max > 0
            /\ desiredCount[s] > 0

\* C14. Discovery failure is all-or-nothing: when an enumerate or describe
\* call of conserve is rejected, or a described service lacks serviceArn or
\* desiredCount, conserve fails with no State returned, no task node added
\* and no mutating call issued; the provider configuration is as it was.
C14_DiscoveryFailureAllOrNothing ==
    op = "failed" =>
        /\ state = <<>>
        /\ \A s \in Services : node[s] = NoNode
        /\ \A c \in calls : c.name \in Discovering
        /\ Config = pre
        /\ ~ENABLED Next

\* Discovery failed after the clusters and services were listed and described:
\* a described service lacks its desiredCount.
C14_Witness ==
    /\ op = "failed"
    /\ \E c \in calls : c.name = "describeServices"
    /\ \A c \in calls : c.name # "describeScalableTargets"
    /\ \E s \in Services : desiredCount[s] > 0

----------------------------------------------------------------------------
\* Order of capture and mutation.

\* The calls that a step issues.
Issued == calls' \ calls

\* C15. Capture precedes mutation: a step that issues an enumerate or describe
\* call is taken while no mutating call has been issued, and it is the step
\* that fixes the State; a step that issues a mutating call is taken after the
\* State was returned; once returned, the State is changed by no later step
\* (success, failure or skip of a subtask), and every entry of it holds the
\* desired count and the scalable targets its service had before conserve.
C15_CapturePrecedesMutation ==
    [][/\ (\E c \in Issued : c.name \in Discovering)
            => /\ op = "none"
               /\ \A c \in calls' : c.name \notin Mutating
       /\ (\E c \in Issued : c.name \in Mutating)
            => /\ op \in {"conserve", "restore"}
               /\ \E c \in calls : c.name \in Discovering
       /\ op \in {"conserve", "restore"} => state' = state
       /\ op' \in {"conserve", "restore"}
            => \A s \in Services :
                InState(state', s)
                    => /\ Captured(s)'.desired = pre'.desired[s]
                       /\ SameTargets(Captured(s)'.scalableTargets, pre'.scalable[s])]_vars

\* During conserve a service has been scaled to zero, another call of the
\* operation was rejected, and the State still holds the count from before.
C15_Witness ==
    /\ op = "conserve"
    /\ FailedIn(0)
    /\ \E s \in Services :
            /\ node[s].desired = "completed"
            /\ desiredCount[s] = 0
            /\ Captured(s).desired > 0
            /\ \E c \in MutatingCallsOf(0) : c.name = "updateService" /\ s \in CallTargets(c)

\* C16. Dry-run still reports the plan: during an operation with dryRun =
\* true, the services with a task node are the services of the State (for
\* conserve, the services it described), a node that has not run yet can
\* run, no 'Desired count' or 'Auto scaling' subtask is ever pending,
\* completed or failed, and when the operation has ended every subtask of
\* every node is skipped.
C16_DryRunReportsPlan ==
    (op \in {"conserve", "restore"} /\ DryRun)
        => \A s \in Services :
            /\ InState(state, s) <=> node[s] # NoNode
            /\ InState(state, s)
                => /\ node[s].desired \in {"waiting", "skipped"}
                   /\ node[s].scaling \in {"waiting", "skipped"}
                   /\ node[s].desired = "waiting" => ENABLED StartService(s)
                   /\ AllTerminal
                        => node[s].desired = "skipped" /\ node[s].scaling = "skipped"

\* A dry-run restore after a dry-run conserve has ended: the node of a running
\* service with a scalable target is reported, all skipped.
C16_Witness ==
    /\ op = "restore"
    /\ dryRuns = <<TRUE, TRUE>>
    /\ AllTerminal
    /\ \E s \in Services :
            /\ InState(state, s)
            /\ Captured(s).desired > 0
            /\ Len(Captured(s).scalableTargets) > 0
            /\ node[s].desired = "skipped"
            /\ node[s].scaling = "skipped"

----------------------------------------------------------------------------
\* Concurrent subtasks.

\* The configuration a conserve leaves when every call of it succeeded, from
\* the configuration it started with.
ConserveOutcome(start) ==
    [desired |-> [s \in Services |->
                    IF InState(state, s) THEN 0 ELSE start.desired[s]],
     scalable |-> [s \in Services |->
                    IF InState(state, s)
                    THEN [i \in 1..Len(start.scalable[s]) |->
                            [dim |-> start.scalable[s][i].dim, min |-> 0, max |-> 0]]
                    ELSE start.scalable[s]]]

\* The captured scalable targets registered one by one onto a target list.
RECURSIVE RegisterAll(_, _)
RegisterAll(targets, captured) ==
    IF Len(captured) = 0 THEN targets
    ELSE RegisterAll(Register(targets, Head(captured).scalableDimension,
                              Head(captured).min, Head(captured).max),
                     Tail(captured))

\* The configuration a restore leaves when every call of it succeeded, from
\* the configuration it started with.
RestoreOutcome(start) ==
    [desired |-> [s \in Services |->
                    IF InState(state, s) /\ Captured(s).desired > 0
                    THEN Captured(s).desired ELSE start.desired[s]],
     scalable |-> [s \in Services |->
                    IF InState(state, s)
                    THEN RegisterAll(start.scalable[s], Captured(s).scalableTargets)
                    ELSE start.scalable[s]]]

\* C17. Interleaving independence: no two mutating calls of one operation
\* write the same thing (the desired count of the same service, or the same
\* scalable dimension of the same resource), and when an operation with
\* dryRun = false has ended with no call rejected, the provider configuration
\* is the one determined by the State and the configuration the operation
\* started with, whatever the order in which the subtasks ran.
C17_InterleavingIndependence ==
    op \in {"conserve", "restore"}
        => /\ \A c1 \in MutatingCallsOf(Run), c2 \in MutatingCallsOf(Run) :
                (/\ c1.name = c2.name
                 /\ CallTargets(c1) \cap CallTargets(c2) # {}
                 /\ c1.dim = c2.dim) => c1 = c2
           /\ (AllTerminal /\ ~DryRun /\ ~FailedIn(Run))
                => Config = IF op = "conserve" THEN ConserveOutcome(pre)
                            ELSE RestoreOutcome(snap)

\* A conserve that ended after four concurrent subtasks, two of each of two
\* running services with a scalable target, wrote to the provider.
C17_Witness ==
    /\ op = "conserve" /\ AllTerminal /\ ~DryRun /\ ~FailedIn(Run)
    /\ \A s \in Services :
            /\ Applied(s)
            /\ pre.desired[s] > 0
            /\ Len(pre.scalable[s]) > 0
            /\ pre.scalable[s][1].max > 0
    /\ Cardinality(MutatingCallsOf(Run)) = 4

\* The registerScalableTarget calls of the current operation for service s.
RegisterCallsFor(s) ==
    {c \in MutatingCallsOf(Run) :
        c.name = "registerScalableTarget" /\ s \in CallTargets(c)}

\* The target of a list that has the given dimension.
TargetOf(targets, dim) ==
    CHOOSE x \in {targets[i] : i \in 1..Len(targets)} : x.dim = dim

\* The configuration the current operation started with.
StartConfig == IF op = "conserve" THEN pre ELSE snap

\* C18. Partial scalable-target update on failure: in an operation with
\* dryRun = false the scalable targets of a service are registered one after
\* another in State order: while the loop is in its k-th round, or has failed
\* in it, the calls issued for the service are those of the first k targets
\* of its State entry. If the k-th call fails, the 'Auto scaling' node is
\* failed, the targets before the k-th have their new min/max (0/0 in
\* conserve, the captured values in restore), and the k-th and the later
\* targets are as they were when the operation started.
C18_PartialTargetUpdate ==
    \A s \in Services :
        (/\ op \in {"conserve", "restore"}
         /\ InState(state, s)
         /\ node[s].scaling \in {"pending", "failed"})
        => LET captured == Captured(s).scalableTargets
               k == node[s].idx
           IN  /\ ~DryRun
               /\ k \in 1..Len(captured)
               /\ {c.dim : c \in RegisterCallsFor(s)}
                    = {captured[i].scalableDimension : i \in 1..k}
               /\ Cardinality(RegisterCallsFor(s)) = k
               /\ node[s].scaling = "failed"
                    => /\ FailedIn(Run)
                       /\ \A i \in 1..(k - 1) :
                            LET x == TargetOf(scalable[s], captured[i].scalableDimension)
                            IN  IF op = "conserve" THEN x.min = 0 /\ x.max = 0
                                ELSE x.min = captured[i].min /\ x.max = captured[i].max
                       /\ \A i \in k..Len(captured) :
                            TargetOf(scalable[s], captured[i].scalableDimension)
                                = TargetOf(StartConfig.scalable[s],
                                           captured[i].scalableDimension)

\* In a conserve the call for the second of two scalable targets was rejected:
\* the first target is at 0/0 and the second still has its capacity.
C18_Witness ==
    /\ op = "conserve"
    /\ \E s \in Services :
            /\ node[s].scaling = "failed"
            /\ node[s].idx = 2
            /\ Len(Captured(s).scalableTargets) = 2
            /\ pre.scalable[s][1].max > 0
            /\ scalable[s][1].max = 0
            /\ scalable[s][2].max > 0

====
